---- MODULE Spec2Model ----
(***************************************************************************)
(* A model of mrjob.fs.composite.CompositeFilesystem: the dispatcher that  *)
(* routes a path-based operation to the filesystems of its registry, in    *)
(* registry order, falling back on IOError (_do_action), the generator     *)
(* _cat_file built on it, and the attribute forwarding of __getattr__.     *)
(*                                                                         *)
(* The filesystems themselves are opaque collaborators: what              *)
(* can_handle_path answers, what an operation returns or raises, and which *)
(* attributes a filesystem exposes are inputs, drawn from small sets.      *)
(***************************************************************************)
EXTENDS Naturals, Sequences, FiniteSets

\* ------------------------------------------------------------------ bounds

\* The largest registry: CompositeFilesystem(*filesystems) takes any number.
MaxFS == 3

\* ------------------------------------------------------------------ inputs

\* The filesystem objects that may be passed to the constructor.
Backends == 1..MaxFS
\* by = Dispatcher marks an object the dispatcher itself created.
Dispatcher == 0
\* The operations that ``return self._do_action(<name>, path, ...)``.
PassThrough ==
    {"du", "ls", "mkdir", "path_exists", "path_join", "rm", "touchz", "md5sum"}
Actions == PassThrough \cup {"_cat_file"}
Paths == {"s3://b/k", "weird://nowhere"}
\* path_join(dirname, filename) forwards filename as *args; the others none.
ArgsOf(action) == IF action = "path_join" THEN <<"part-0">> ELSE <<>>
\* Values a filesystem may return from an operation.
Values == {"v1", "v2"}
\* Messages a filesystem puts in an exception it raises.
Messages == {"denied", "timeout"}
\* The line sequences a file may hold on a filesystem.
FileContents == {<<>>, <<"a">>, <<"a", "b">>, <<"b", "a">>}
\* Attribute names outside CompositeFilesystem's own methods.
Names == {"get_hadoop_version", "make_s3_conn"}
\* The threads that access forwarded attributes concurrently.
Threads == {"t1", "t2"}

RECURSIVE SeqsUpTo(_, _)
SeqsUpTo(S, n) ==
    IF n = 0 THEN {<<>>}
    ELSE LET shorter == SeqsUpTo(S, n - 1)
         IN  shorter \cup {Append(s, x) : s \in {t \in shorter : Len(t) = n - 1}, x \in S}

\* Every registry: the filesystems passed to __init__, in order, each object once.
Registries ==
    {r \in SeqsUpTo(Backends, MaxFS) : \A a, b \in 1..Len(r) : a # b => r[a] # r[b]}

\* ------------------------------------------------------------ exceptions

\* first_exception = None
None == [kind |-> "None", by |-> Dispatcher, msg |-> <<>>]

\* An exception raised by filesystem b: IOError, or any other class.
BackendFailure(kind, b, m) == [kind |-> kind, by |-> b, msg |-> <<m>>]

\* What iterating a stream may end in.
StreamEnds == {"eof", "IOError", "OtherError"}
\* The iterable a filesystem's _cat_file returns: its lines, then how it ends.
Streams == {[lines |-> l, end |-> e] : l \in FileContents, e \in StreamEnds}

\* What calling getattr(fs, action)(path, *args) on filesystem b can do.
AttemptResults(b, action) ==
    {[type |-> "return", by |-> b, value |-> v] :
        v \in IF action = "_cat_file" THEN Streams ELSE Values}
    \cup {[type |-> "raise", by |-> b, exc |-> BackendFailure(k, b, m)] :
        k \in {"IOError", "OtherError"}, m \in Messages}


\* --------------------------------------------------------------- state

VARIABLES
    filesystems,      \* self.filesystems: the registry, in order
    pc,               \* where the main thread is: idle, check, try, done
    caller,           \* who called _do_action: "direct" or "gen" (_cat_file)
    action,           \* _do_action's action
    path,             \* _do_action's path
    args,             \* _do_action's *args
    i,                \* the index of fs in ``for fs in self.filesystems``
    first_exception,  \* _do_action's local first_exception
    outcome,          \* what _do_action returned or raised
    hist,             \* the calls made on filesystems by this _do_action, in order
    gstate,           \* the generator _cat_file returned: none, fresh, opening,
                      \* streaming, finished
    gpath,            \* the generator's path
    gstream,          \* the lines the chosen filesystem's stream still holds
    gsrc,             \* the filesystem whose stream the generator iterates
    gopened,          \* the stream as the filesystem returned it
    yielded,          \* the lines the generator has yielded
    gout,             \* how the generator ended: StopIteration or an exception
    gagain,           \* next() was called on the finished generator
    attrs,            \* what hasattr(fs, name) answers, once it has been asked
    bound,            \* the instance's own attributes of forwarded names
    resolved,         \* the names some lookup has resolved so far
    lpc,              \* where each thread's attribute access is
    lname,            \* the name each thread accesses
    li,               \* each thread's index of fs in __getattr__'s loop
    lfound,           \* the filesystem whose attribute each access returned
    lout,             \* what the access, and the call of what it returned, ended in
    lhist,            \* the filesystems each access inspected or called, in order
    lwarm,            \* the name had been resolved before this access began
    earlier,          \* a call that ended before this one had saved a failure
    demanded,         \* next() has been called on the generator
    present,          \* the filesystems on which the contract's path exists
    owns,             \* what can_handle_path answers for the contract's path, once asked
    before,           \* the call that ended before this one, in short
    clean             \* the path was on no filesystem when this call began

dvars == <<pc, caller, action, path, args, i, first_exception, outcome, hist>>
gvars == <<gstate, gpath, gstream, gsrc, gopened, yielded, gout, gagain>>
lvars == <<attrs, bound, resolved, lpc, lname, li, lfound, lout, lhist, lwarm>>
kvars == <<present, owns, before, clean>>

NoOutcome == [type |-> "none"]
NoStream == [lines |-> <<>>, end |-> "none"]
\* before, when no call has ended yet.
NoCall == [act |-> "none", ok |-> FALSE, first |-> FALSE, clean |-> FALSE]
\* The generator ran off its end: a for loop over it stops, next() raises StopIteration.
StopIteration == [kind |-> "StopIteration", by |-> Dispatcher, msg |-> <<>>]

\* ------------------------------------------------------ _do_action, pieces

\* A slip: a bare ``except:`` that catches every class.
CatchesAll(e) == TRUE

\* ``except IOError, e``: the classes of exception the handler catches.
Catches(e) == e.kind = "IOError"

\* A slip: the last failure overwrites the saved one.
RememberLast(first, e) == e

\* ``if first_exception is None: first_exception = e``
Remember(first, e) == IF first = None THEN e ELSE first

\* ``'%s' % (args,)``: the text of the tuple args.
ArgsText(a) == IF a = <<>> THEN "()" ELSE "('part-0',)"

\* ``'Could not %s: %s %s' % (action, path, args)``, as the pieces of the text.
CouldNot(act, p, a) == <<"Could not ", act, ": ", p, " ", ArgsText(a)>>

\* A slip: the message leaves the path out.
GenericFailureNoPath(act, p, a) ==
    [kind |-> "IOError", by |-> Dispatcher, msg |-> <<"Could not ", act, ArgsText(a)>>]

\* A change: a class of its own for "no filesystem handles the path".
GenericFailureOwnKind(act, p, a) ==
    [kind |-> "NoHandlerError", by |-> Dispatcher, msg |-> CouldNot(act, p, a)]

\* ``IOError('Could not %s: %s %s' % (action, path, args))``
GenericFailure(act, p, a) ==
    [kind |-> "IOError", by |-> Dispatcher, msg |-> CouldNot(act, p, a)]

\* A slip: the failure saved is dropped and the loop always ends with the
\* dispatcher's own failure.
ExhaustedGeneric(first, act, p, a) == GenericFailure(act, p, a)

\* After the loop: raise the generic IOError if nothing was saved, else what was saved.
Exhausted(first, act, p, a) ==
    IF first = None THEN GenericFailure(act, p, a) ELSE first

Raise(e) == [type |-> "raise", exc |-> e]

\* A slip: a saved failure is raised although a later filesystem succeeded.
ReturnedUnlessSaved(res) ==
    IF first_exception = None THEN res ELSE Raise(first_exception)

\* ``return getattr(fs, action)(path, *args, **kwargs)``: what the caller gets.
Returned(res) == res

\* A slip: the saved failure lives on from call to call.
StaleMemory == first_exception

\* ``first_exception = None`` at the start of every _do_action.
FreshMemory == None

\* A slip: the loop runs over the registry from its end.
CandidateReversed(k) == filesystems[Len(filesystems) + 1 - k]

\* ``for fs in self.filesystems``: the k-th filesystem _do_action's loop visits.
Candidate(k) == filesystems[k]

\* A slip: the loop does not move on.
NextIndexStuck(k) == k

\* The for loop moves to the next filesystem.
NextIndex(k) == k + 1

\* A slip: the test is dropped, and every filesystem is attempted.
ClaimedAlways(ans) == TRUE

\* ``if fs.can_handle_path(path):``
Claimed(ans) == ans

\* The first statement of _do_action, for a call of action act on path p.
Enter(who, act, p) ==
    /\ caller' = who
    /\ action' = act
    /\ path' = p
    /\ args' = ArgsOf(act)
    /\ i' = 1
    /\ first_exception' = FreshMemory
    /\ outcome' = NoOutcome
    /\ hist' = <<>>
    /\ pc' = "check"

\* --------------------------------------------------- pass-through methods

\* du, ls, mkdir, path_exists, path_join, rm, touchz, md5sum:
\* ``return self._do_action(<name>, path, ...)``.
CallStep(act, p) ==
    /\ UNCHANGED lvars
    /\ earlier' = (earlier \/ first_exception # None)
    /\ demanded' = FALSE
    /\ pc = "idle"
    /\ gstate \in {"none", "finished"}
    /\ Enter("direct", act, p)
    /\ gstate' = "none"
    /\ gpath' = p
    /\ gstream' = NoStream
    /\ gsrc' = Dispatcher
    /\ gopened' = NoStream
    /\ yielded' = <<>>
    /\ gout' = None
    /\ gagain' = FALSE
    /\ UNCHANGED filesystems

Call(act, p) == CallStep(act, p) /\ UNCHANGED kvars

\* ``for fs in self.filesystems: if fs.can_handle_path(path):`` with fs's answer.
CheckStep(ans) ==
    /\ UNCHANGED lvars
    /\ UNCHANGED <<earlier, demanded>>
    /\ pc = "check"
    /\ i <= Len(filesystems)
    /\ hist' = Append(hist, [ev |-> "check", pos |-> i, fs |-> Candidate(i), ans |-> ans])
    /\ IF Claimed(ans) THEN pc' = "try" /\ i' = i
                       ELSE pc' = "check" /\ i' = NextIndex(i)
    /\ UNCHANGED <<filesystems, caller, action, path, args, first_exception, outcome>>
    /\ UNCHANGED gvars

Check(ans) == CheckStep(ans) /\ UNCHANGED kvars

\* What _do_action's caller does with what it returned or raised: a pass-through
\* method hands it on; the generator starts to iterate a returned stream, and an
\* exception ends the generator.
Deliver(out) ==
    /\ outcome' = out
    /\ pc' = "done"
    /\ IF caller = "gen"
       THEN IF out.type = "return"
            THEN /\ gstate' = "streaming"
                 /\ gstream' = out.value
                 /\ gopened' = out.value
                 /\ gsrc' = out.by
                 /\ UNCHANGED <<gpath, yielded, gout, gagain>>
            ELSE /\ gstate' = "finished"
                 /\ gout' = out.exc
                 /\ UNCHANGED <<gpath, gstream, gopened, gsrc, yielded, gagain>>
       ELSE UNCHANGED gvars

\* A slip: the result of a successful attempt is kept and the loop goes on to
\* the filesystems after it, instead of returning at once.
TryStepKeepsGoing(res) ==
    /\ UNCHANGED lvars
    /\ UNCHANGED <<earlier, demanded>>
    /\ pc = "try"
    /\ res.by = Candidate(i)
    /\ hist' = Append(hist, [ev |-> "try", pos |-> i, fs |-> Candidate(i), res |-> res])
    /\ IF res.type = "return"
       THEN /\ outcome' = Returned(res)
            /\ i' = NextIndex(i)
            /\ pc' = "check"
            /\ UNCHANGED first_exception
            /\ UNCHANGED gvars
       ELSE IF Catches(res.exc)
            THEN /\ first_exception' = Remember(first_exception, res.exc)
                 /\ i' = NextIndex(i)
                 /\ pc' = "check"
                 /\ UNCHANGED outcome
                 /\ UNCHANGED gvars
            ELSE /\ Deliver(Raise(res.exc))
                 /\ UNCHANGED <<i, first_exception>>
    /\ UNCHANGED <<filesystems, caller, action, path, args>>

\* A slip: a filesystem whose attempt failed with an IOError is taken out of
\* the registry, so that later calls no longer ask it.
TryStepDropsFailed(res) ==
    /\ UNCHANGED lvars
    /\ UNCHANGED <<earlier, demanded>>
    /\ pc = "try"
    /\ res.by = Candidate(i)
    /\ hist' = Append(hist, [ev |-> "try", pos |-> i, fs |-> Candidate(i), res |-> res])
    /\ IF res.type = "return"
       THEN /\ Deliver(Returned(res))
            /\ UNCHANGED <<i, first_exception, filesystems>>
       ELSE IF Catches(res.exc)
            THEN /\ first_exception' = Remember(first_exception, res.exc)
                 /\ filesystems' = [k \in 1..(Len(filesystems) - 1) |->
                                       IF k < i THEN filesystems[k] ELSE filesystems[k + 1]]
                 /\ i' = i
                 /\ pc' = "check"
                 /\ UNCHANGED outcome
                 /\ UNCHANGED gvars
            ELSE /\ Deliver(Raise(res.exc))
                 /\ UNCHANGED <<i, first_exception, filesystems>>
    /\ UNCHANGED <<caller, action, path, args>>

\* ``try: return getattr(fs, action)(path, *args, **kwargs)``
\* ``except IOError, e: if first_exception is None: first_exception = e``
\* with what the filesystem did: res.
TryStep(res) ==
    /\ UNCHANGED lvars
    /\ UNCHANGED <<earlier, demanded>>
    /\ pc = "try"
    /\ res.by = Candidate(i)
    /\ hist' = Append(hist, [ev |-> "try", pos |-> i, fs |-> Candidate(i), res |-> res])
    /\ IF res.type = "return"
       THEN /\ Deliver(Returned(res))
            /\ UNCHANGED <<i, first_exception>>
       ELSE IF Catches(res.exc)
            THEN /\ first_exception' = Remember(first_exception, res.exc)
                 /\ i' = NextIndex(i)
                 /\ pc' = "check"
                 /\ UNCHANGED outcome
                 /\ UNCHANGED gvars
            ELSE /\ Deliver(Raise(res.exc))
                 /\ UNCHANGED <<i, first_exception>>
    /\ UNCHANGED <<filesystems, caller, action, path, args>>

Try(res) == TryStep(res) /\ UNCHANGED kvars

\* The loop is over: ``if first_exception is None: raise IOError(...)``
\* ``else: raise first_exception``.
Finish ==
    /\ UNCHANGED lvars
    /\ UNCHANGED <<kvars, earlier, demanded>>
    /\ pc = "check"
    /\ i > Len(filesystems)
    /\ Deliver(Raise(Exhausted(first_exception, action, path, args)))
    /\ UNCHANGED <<filesystems, caller, action, path, args, i, first_exception, hist>>

\* The pass-through method has returned to its caller.
Return ==
    /\ UNCHANGED lvars
    /\ UNCHANGED <<kvars, earlier, demanded>>
    /\ pc = "done"
    /\ caller = "direct"
    /\ pc' = "idle"
    /\ UNCHANGED <<filesystems, caller, action, path, args, i, first_exception, outcome, hist>>
    /\ UNCHANGED gvars

\* ------------------------------------------------------------- _cat_file

\* A slip: _cat_file is an ordinary function, so calling it enters _do_action
\* at once.
CatFileEager(p) ==
    /\ UNCHANGED lvars
    /\ UNCHANGED kvars
    /\ earlier' = (earlier \/ first_exception # None)
    /\ demanded' = FALSE
    /\ pc = "idle"
    /\ gstate \in {"none", "finished"}
    /\ gstate' = "opening"
    /\ gpath' = p
    /\ gstream' = NoStream
    /\ gsrc' = Dispatcher
    /\ gopened' = NoStream
    /\ yielded' = <<>>
    /\ gout' = None
    /\ gagain' = FALSE
    /\ Enter("gen", "_cat_file", p)
    /\ UNCHANGED filesystems

\* Calling _cat_file(path): a generator function, so no statement of its body runs.
CatFile(p) ==
    /\ UNCHANGED lvars
    /\ UNCHANGED kvars
    /\ earlier' = (earlier \/ first_exception # None)
    /\ demanded' = FALSE
    /\ pc = "idle"
    /\ gstate \in {"none", "finished"}
    /\ gstate' = "fresh"
    /\ gpath' = p
    /\ gstream' = NoStream
    /\ gsrc' = Dispatcher
    /\ gopened' = NoStream
    /\ yielded' = <<>>
    /\ gout' = None
    /\ gagain' = FALSE
    /\ caller' = "gen"
    /\ action' = "_cat_file"
    /\ path' = p
    /\ args' = <<>>
    /\ i' = 1
    /\ first_exception' = None
    /\ outcome' = NoOutcome
    /\ hist' = <<>>
    /\ UNCHANGED <<filesystems, pc>>

\* The first next(): the body starts, ``self._do_action('_cat_file', path)``.
GenStart ==
    /\ UNCHANGED lvars
    /\ UNCHANGED <<kvars, earlier>>
    /\ demanded' = TRUE
    /\ gstate = "fresh"
    /\ pc = "idle"
    /\ Enter("gen", "_cat_file", gpath)
    /\ gstate' = "opening"
    /\ UNCHANGED <<filesystems, gpath, gstream, gsrc, gopened, yielded, gout, gagain>>

\* A slip: the lines come out from the stream's far end.
NextLineFromEnd(s) == s.lines[Len(s.lines)]

\* ``for line in ...: yield line``: the line the generator yields next.
NextLine(s) == Head(s.lines)

\* A slip: the iteration runs under _do_action's handler, so an IOError in
\* mid-stream ends as the loop's own failure.
StreamEndHandled(s, src) ==
    IF s.end = "eof" THEN StopIteration
    ELSE IF s.end = "IOError" THEN Exhausted(first_exception, action, path, args)
    ELSE BackendFailure(s.end, src, "read")

\* How the generator ends when the stream of filesystem src does: the stream's
\* end of file ends the for loop, and an exception of the stream's is the
\* generator's (no handler is active in _cat_file).
StreamEnd(s, src) ==
    IF s.end = "eof" THEN StopIteration ELSE BackendFailure(s.end, src, "read")

\* ``for line in <stream>: yield line``: the stream's next line, or its end.
GenNext ==
    /\ UNCHANGED lvars
    /\ UNCHANGED <<kvars, earlier, demanded>>
    /\ gstate = "streaming"
    /\ pc = "done"
    /\ IF gstream.lines # <<>>
       THEN /\ yielded' = Append(yielded, NextLine(gstream))
            /\ gstream' = [gstream EXCEPT !.lines = Tail(@)]
            /\ UNCHANGED <<gstate, gout, pc>>
       ELSE /\ gstate' = "finished"
            /\ pc' = "idle"
            /\ gout' = StreamEnd(gstream, gsrc)
            /\ UNCHANGED <<yielded, gstream>>
    /\ UNCHANGED <<filesystems, caller, action, path, args, i, first_exception, outcome, hist>>
    /\ UNCHANGED <<gpath, gsrc, gopened, gagain>>

\* _do_action raised inside the generator: the exception leaves next().
GenRaised ==
    /\ UNCHANGED lvars
    /\ UNCHANGED <<kvars, earlier, demanded>>
    /\ gstate = "finished"
    /\ pc = "done"
    /\ caller = "gen"
    /\ pc' = "idle"
    /\ UNCHANGED <<filesystems, caller, action, path, args, i, first_exception, outcome, hist>>
    /\ UNCHANGED gvars

\* next() on a generator that has finished: StopIteration, and nothing else runs.
GenAgain ==
    /\ UNCHANGED lvars
    /\ UNCHANGED <<kvars, earlier, demanded>>
    /\ gstate = "finished"
    /\ pc = "idle"
    /\ gagain' = TRUE
    /\ UNCHANGED <<filesystems, gstate, gpath, gstream, gsrc, gopened, yielded, gout>>
    /\ UNCHANGED dvars

\* ----------------------------------------------------------- __getattr__

\* hasattr(fs, name): a filesystem's attributes do not change, so the answer given
\* once is the answer from then on.
HasAttr(known, ans) == known = "unasked" \/ known = (IF ans THEN "yes" ELSE "no")

\* A change: the filesystem found is stored in the instance under the name.
BindMemoized(b, name, fs) == [b EXCEPT ![name] = fs]

\* What __getattr__ leaves in the instance when it finds fs exposing name:
\* ``return getattr(fs, name)`` stores nothing.
Bind(b, name, fs) == b

\* A slip: the loop runs over the registry from its end.
ScannedReversed(k) == filesystems[Len(filesystems) + 1 - k]

\* ``for fs in self.filesystems``: the k-th filesystem __getattr__'s loop visits.
Scanned(k) == filesystems[k]

\* A slip: the test is dropped, and the first filesystem visited is taken.
FoundAlways(ans) == TRUE

\* ``if hasattr(fs, name): return getattr(fs, name)``
Found(ans) == ans

\* What calling the attribute getattr(fs, name) returned can do: it is fs's own.
ForwardResults(fs) ==
    {[type |-> "return", by |-> fs, value |-> v] : v \in Values}
    \cup {[type |-> "raise", by |-> fs, exc |-> BackendFailure(k, fs, m)] :
        k \in {"IOError", "OtherError"}, m \in Messages}

\* Thread t evaluates self.<name>. Python calls __getattr__ only when the instance
\* and its class do not have the attribute; else the attribute is returned as is.
GetAttr(t, name) ==
    /\ lpc[t] = "idle"
    /\ lname' = [lname EXCEPT ![t] = name]
    /\ lwarm' = [lwarm EXCEPT ![t] = name \in resolved]
    /\ lhist' = [lhist EXCEPT ![t] = <<>>]
    /\ lout' = [lout EXCEPT ![t] = NoOutcome]
    /\ li' = [li EXCEPT ![t] = 1]
    /\ IF bound[name] # Dispatcher
       THEN /\ lpc' = [lpc EXCEPT ![t] = "found"]
            /\ lfound' = [lfound EXCEPT ![t] = bound[name]]
       ELSE /\ lpc' = [lpc EXCEPT ![t] = "scan"]
            /\ lfound' = [lfound EXCEPT ![t] = Dispatcher]
    /\ UNCHANGED <<attrs, bound, resolved, filesystems>>
    /\ UNCHANGED <<dvars, gvars, kvars, earlier, demanded>>

\* ``for fs in self.filesystems: if hasattr(fs, name): return getattr(fs, name)``
Inspect(t, ans) ==
    /\ lpc[t] = "scan"
    /\ li[t] <= Len(filesystems)
    /\ LET fs == Scanned(li[t])
       IN  /\ HasAttr(attrs[fs][lname[t]], ans)
           /\ attrs' = [attrs EXCEPT ![fs][lname[t]] = IF ans THEN "yes" ELSE "no"]
           /\ lhist' = [lhist EXCEPT ![t] =
                  Append(@, [ev |-> "hasattr", pos |-> li[t], fs |-> fs, ans |-> ans])]
           /\ IF Found(ans)
              THEN /\ lpc' = [lpc EXCEPT ![t] = "found"]
                   /\ lfound' = [lfound EXCEPT ![t] = fs]
                   /\ bound' = Bind(bound, lname[t], fs)
                   /\ resolved' = resolved \cup {lname[t]}
                   /\ UNCHANGED li
              ELSE /\ li' = [li EXCEPT ![t] = @ + 1]
                   /\ UNCHANGED <<lpc, lfound, bound, resolved>>
    /\ UNCHANGED <<lname, lout, lwarm, filesystems>>
    /\ UNCHANGED <<dvars, gvars, kvars, earlier, demanded>>

\* A slip: the lookup that found nothing ends as an IOError.
AttributeErrorAsIOError(name) ==
    [kind |-> "IOError", by |-> Dispatcher, msg |-> <<name>>]

\* ``AttributeError(name)``
AttributeError(name) ==
    [kind |-> "AttributeError", by |-> Dispatcher, msg |-> <<name>>]

\* The loop is over: ``raise AttributeError(name)``
Missing(t) ==
    /\ lpc[t] = "scan"
    /\ li[t] > Len(filesystems)
    /\ lpc' = [lpc EXCEPT ![t] = "missing"]
    /\ lout' = [lout EXCEPT ![t] = Raise(AttributeError(lname[t]))]
    /\ UNCHANGED <<attrs, bound, resolved, lname, li, lfound, lhist, lwarm, filesystems>>
    /\ UNCHANGED <<dvars, gvars, kvars, earlier, demanded>>

\* The caller calls what the access returned: a bound method of the filesystem
\* found, so the call runs in that filesystem and its result or exception is the
\* caller's.
Forward(t, res) ==
    /\ lpc[t] = "found"
    /\ res.by = lfound[t]
    /\ lpc' = [lpc EXCEPT ![t] = "called"]
    /\ lout' = [lout EXCEPT ![t] = res]
    /\ lhist' = [lhist EXCEPT ![t] = Append(@, [ev |-> "call", fs |-> lfound[t], res |-> res])]
    /\ UNCHANGED <<attrs, bound, resolved, lname, li, lfound, lwarm, filesystems>>
    /\ UNCHANGED <<dvars, gvars, kvars, earlier, demanded>>

\* The thread is done with the attribute.
Forget(t) ==
    /\ lpc[t] \in {"found", "called", "missing"}
    /\ lpc' = [lpc EXCEPT ![t] = "idle"]
    /\ lname' = [lname EXCEPT ![t] = "none"]
    /\ li' = [li EXCEPT ![t] = 1]
    /\ lfound' = [lfound EXCEPT ![t] = Dispatcher]
    /\ lout' = [lout EXCEPT ![t] = NoOutcome]
    /\ lhist' = [lhist EXCEPT ![t] = <<>>]
    /\ lwarm' = [lwarm EXCEPT ![t] = FALSE]
    /\ UNCHANGED <<attrs, bound, resolved, filesystems>>
    /\ UNCHANGED <<dvars, gvars, kvars, earlier, demanded>>

\* -------------------------------------------- filesystems under contract

\* The path of the calls made on filesystems that keep the capability contract.
ContractPath == "s3://b/k"
\* The operations the contract says are idempotent.
Idempotent == {"mkdir", "rm"}

\* can_handle_path is a pure predicate of the path: the answer given once is
\* the answer from then on.
Pure(known, ans) == known = "unasked" \/ known = (IF ans THEN "yes" ELSE "no")

\* The contract of a filesystem: mkdir does not fail on a path that is there
\* (idempotent if present), rm does not fail on a path that is not there
\* (idempotent if absent). Otherwise the operation may succeed or fail.
Honours(here, act, res) ==
    /\ (act = "mkdir" /\ here) => res.type = "return"
    /\ (act = "rm" /\ ~here) => res.type = "return"

\* What an operation leaves on the filesystem: a mkdir that returned, the path;
\* an rm that returned, nothing; one that failed, what was there.
Effect(here, act, res) ==
    IF res.type = "return" THEN act = "mkdir" ELSE here

\* The call that has just ended, in short: its operation, whether it returned,
\* whether the first filesystem it attempted returned, and whether the path was
\* on no filesystem when it began.
Summary ==
    IF outcome = NoOutcome THEN NoCall
    ELSE [act |-> action,
          ok |-> outcome.type = "return",
          first |-> outcome.type = "return"
                    /\ Len(SelectSeq(hist, LAMBDA e : e.ev = "try")) = 1,
          clean |-> clean]

\* mkdir(path) or rm(path) on the contract's path.
ContractCall(act) ==
    /\ CallStep(act, ContractPath)
    /\ before' = Summary
    /\ clean' = (\A b \in Backends : ~present[b])
    /\ UNCHANGED <<present, owns>>

\* can_handle_path(path) of a filesystem under contract.
ContractCheck(ans) ==
    /\ CheckStep(ans)
    /\ Pure(owns[Candidate(i)], ans)
    /\ owns' = [owns EXCEPT ![Candidate(i)] = IF ans THEN "yes" ELSE "no"]
    /\ UNCHANGED <<present, before, clean>>

\* mkdir or rm on a filesystem under contract.
ContractTry(res) ==
    /\ TryStep(res)
    /\ Honours(present[res.by], action, res)
    /\ present' = [present EXCEPT ![res.by] = Effect(@, action, res)]
    /\ UNCHANGED <<owns, before, clean>>

\* ----------------------------------------------------------- specification

vars == <<filesystems, pc, caller, action, path, args, i, first_exception, outcome,
          hist, gstate, gpath, gstream, gsrc, gopened, yielded, gout, gagain,
          attrs, bound, resolved, lpc, lname, li, lfound, lout, lhist, lwarm,
          earlier, demanded, present, owns, before, clean>>

\* __init__(self, *filesystems): ``self.filesystems = filesystems``
Init ==
    /\ filesystems \in Registries
    /\ pc = "idle"
    /\ caller = "direct"
    /\ action = "ls"
    /\ path = "s3://b/k"
    /\ args = <<>>
    /\ i = 1
    /\ first_exception = None
    /\ outcome = NoOutcome
    /\ hist = <<>>
    /\ gstate = "none"
    /\ gpath = path
    /\ gstream = NoStream
    /\ gsrc = Dispatcher
    /\ gopened = NoStream
    /\ yielded = <<>>
    /\ gout = None
    /\ gagain = FALSE
    /\ attrs = [b \in Backends |-> [n \in Names |-> "unasked"]]
    /\ bound = [n \in Names |-> Dispatcher]
    /\ resolved = {}
    /\ lpc = [t \in Threads |-> "idle"]
    /\ lname = [t \in Threads |-> "none"]
    /\ li = [t \in Threads |-> 1]
    /\ lfound = [t \in Threads |-> Dispatcher]
    /\ lout = [t \in Threads |-> NoOutcome]
    /\ lhist = [t \in Threads |-> <<>>]
    /\ lwarm = [t \in Threads |-> FALSE]
    /\ earlier = FALSE
    /\ demanded = FALSE
    /\ present = [b \in Backends |-> FALSE]
    /\ owns = [b \in Backends |-> "unasked"]
    /\ before = NoCall
    /\ clean = TRUE

Next ==
    \/ \E act \in PassThrough, p \in Paths : Call(act, p)
    \/ \E ans \in BOOLEAN : Check(ans)
    \/ \E b \in Backends : \E res \in AttemptResults(b, action) : Try(res)
    \/ Finish
    \/ Return
    \/ \E p \in Paths : CatFile(p)
    \/ GenStart
    \/ GenNext
    \/ GenRaised
    \/ GenAgain

Spec == Init /\ [][Next]_vars

\* Threads that access forwarded attributes of one dispatcher concurrently.
LookupNext ==
    \/ \E t \in Threads, name \in Names : GetAttr(t, name)
    \/ \E t \in Threads, ans \in BOOLEAN : Inspect(t, ans)
    \/ \E t \in Threads : Missing(t)
    \/ \E t \in Threads, b \in Backends : \E res \in ForwardResults(b) : Forward(t, res)
    \/ \E t \in Threads : Forget(t)

LookupSpec == Init /\ [][LookupNext]_vars

\* mkdir and rm, again and again, on one path of filesystems that keep the contract.
ContractNext ==
    \/ \E act \in Idempotent : ContractCall(act)
    \/ \E ans \in BOOLEAN : ContractCheck(ans)
    \/ \E b \in Backends : \E res \in AttemptResults(b, action) : ContractTry(res)
    \/ Finish
    \/ Return

ContractSpec == Init /\ [][ContractNext]_vars

\* One step of _do_action's loop: a question, an attempt, or the loop's end.
Loop ==
    \/ \E ans \in BOOLEAN : Check(ans)
    \/ \E b \in Backends : \E res \in AttemptResults(b, action) : Try(res)
    \/ Finish

\* Pass-through calls one after another, every method on one path: whether a
\* filesystem claims it is the filesystem's answer, drawn at each question.
PassThroughNext ==
    \/ \E act \in PassThrough : Call(act, ContractPath)
    \/ Loop
    \/ Return

\* _do_action runs in its caller's thread, and every can_handle_path and every
\* method of a filesystem returns or raises: a loop that can take a step takes it.
TerminationSpec == Init /\ [][PassThroughNext]_vars /\ WF_vars(Loop)

\* ------------------------------------------------------------------ claims

\* The attempts and the ownership checks of the current _do_action, in order.
Tries == SelectSeq(hist, LAMBDA e : e.ev = "try")
Claimers == SelectSeq(hist, LAMBDA e : e.ev = "check" /\ e.ans)
IOFailed(e) == e.res.type = "raise" /\ e.res.exc.kind = "IOError"
\* A pass-through method's _do_action has ended.
PassThroughEnded == caller = "direct" /\ action \in PassThrough /\ outcome # NoOutcome

\* C1: when a pass-through call has ended and every filesystem that claimed the
\* path failed with an IOError, the call raised the very exception of the first
\* claiming filesystem in registry order (its object: origin and message), not a
\* later filesystem's and not one the dispatcher made.
C1_FirstFailureRaised ==
    (/\ PassThroughEnded
     /\ Claimers # <<>>
     /\ \A k \in 1..Len(Tries) : IOFailed(Tries[k]))
    => /\ Len(Tries) = Len(Claimers)
       /\ Tries[1].fs = Claimers[1].fs
       /\ Tries[1].pos = Claimers[1].pos
       /\ \A k \in 1..Len(Claimers) : Claimers[1].pos <= Claimers[k].pos
       /\ outcome = Raise(Tries[1].res.exc)
       /\ outcome.exc.by = Claimers[1].fs

\* C1's case: two filesystems claimed the path, both failed with IOErrors of
\* different messages, and the call has ended.
C1_Witness ==
    /\ PassThroughEnded
    /\ Len(Claimers) = 2
    /\ Len(Tries) = 2
    /\ IOFailed(Tries[1]) /\ IOFailed(Tries[2])
    /\ Tries[1].res.exc.msg # Tries[2].res.exc.msg
    /\ outcome.type = "raise"

\* C2: when a pass-through call has ended and some attempt succeeded after only
\* IOError failures of the claiming filesystems before it, the call returned
\* that attempt's result unchanged, and raised nothing.
C2_FirstSuccessReturned ==
    \A k \in 1..Len(Tries) :
        (/\ PassThroughEnded
         /\ Tries[k].res.type = "return"
         /\ \A j \in 1..(k - 1) : IOFailed(Tries[j]))
        => /\ outcome.type = "return"
           /\ outcome = Tries[k].res
           /\ outcome.by = Claimers[k].fs
           /\ k = Len(Tries)
           /\ Len(Claimers) = k

\* C2's case: the first claiming filesystem failed with an IOError, the second
\* succeeded, and the call has ended.
C2_Witness ==
    /\ PassThroughEnded
    /\ Len(Tries) = 2
    /\ IOFailed(Tries[1])
    /\ Tries[2].res.type = "return"
    /\ outcome.type = "return"

\* C2's other case: exactly one filesystem claimed the path and succeeded.
C2_WitnessSingle ==
    /\ PassThroughEnded
    /\ Len(filesystems) >= 2
    /\ Len(Claimers) = 1
    /\ Tries[1].res.type = "return"

\* Whether x is one of the parts of message m.
Names_In(m, x) == \E k \in 1..Len(m) : m[k] = x

\* C3: when a pass-through call has ended and no filesystem claimed the path
\* (an empty registry included), nothing was attempted and the call raised the
\* dispatcher's own IOError, whose message names the operation and the path.
C3_NoOwnerGenericFailure ==
    (PassThroughEnded /\ Claimers = <<>>)
    => /\ Tries = <<>>
       /\ Len(hist) = Len(filesystems)
       /\ outcome.type = "raise"
       /\ outcome.exc.by = Dispatcher
       /\ outcome.exc.kind = "IOError"
       /\ Names_In(outcome.exc.msg, action)
       /\ Names_In(outcome.exc.msg, path)

\* C3's case: a registry of two filesystems, both declined the path.
C3_Witness ==
    /\ PassThroughEnded
    /\ Len(filesystems) = 2
    /\ Claimers = <<>>
    /\ Len(hist) = 2
    /\ path = "weird://nowhere"
    /\ action = "rm"

\* C3's other case: the empty registry.
C3_WitnessEmpty == PassThroughEnded /\ filesystems = <<>>

\* C4, as claimed: the failure raised when no filesystem claimed the path is of
\* a kind that is not the kind that triggers fallback.
C4_Original ==
    (PassThroughEnded /\ Claimers = <<>>) => ~Catches(outcome.exc)

\* C4, amended: the failure raised when no filesystem claimed the path is an
\* IOError, the kind that triggers fallback; it differs from the failure raised
\* when the owners failed only in being made by the dispatcher, with the
\* dispatcher's message.
C4_SameKindOwnObject ==
    /\ (PassThroughEnded /\ Claimers = <<>>)
       => /\ outcome.type = "raise"
          /\ outcome.exc.kind = "IOError"
          /\ Catches(outcome.exc)
          /\ outcome.exc.by = Dispatcher
    /\ (PassThroughEnded /\ Claimers # <<>> /\ outcome.type = "raise")
       => /\ outcome.exc.by # Dispatcher
          /\ outcome.exc.by = Tries[IF Catches(outcome.exc) THEN 1 ELSE Len(Tries)].fs

\* C4's case: one call ended with no owner, in a registry whose filesystems can
\* fail with IOErrors.
C4_Witness ==
    /\ PassThroughEnded
    /\ Len(filesystems) = 3
    /\ Claimers = <<>>
    /\ outcome.type = "raise"

\* C5: an attempt that failed with an exception that is not an IOError is the
\* last thing the call did: no later filesystem was checked or attempted, and
\* the call raised that exception, whatever IOError had been saved before.
C5_NonIOPropagates ==
    \A k \in 1..Len(hist) :
        (/\ action \in PassThrough
         /\ hist[k].ev = "try"
         /\ hist[k].res.type = "raise"
         /\ hist[k].res.exc.kind # "IOError")
        => /\ k = Len(hist)
           /\ pc \in {"done", "idle"}
           /\ outcome = Raise(hist[k].res.exc)
           /\ i = hist[k].pos

\* C5's case: an IOError had been saved, then a claiming filesystem failed with
\* another class of exception, and a filesystem after it was never asked.
C5_Witness ==
    /\ PassThroughEnded
    /\ Len(Tries) = 2
    /\ IOFailed(Tries[1])
    /\ first_exception = Tries[1].res.exc
    /\ Tries[2].res.type = "raise"
    /\ Tries[2].res.exc.kind = "OtherError"
    /\ outcome = Raise(Tries[2].res.exc)
    /\ i < Len(filesystems)

\* The filesystems an access inspected with hasattr, and the calls it forwarded.
Inspections(t) == SelectSeq(lhist[t], LAMBDA e : e.ev = "hasattr")
Forwarded(t) == SelectSeq(lhist[t], LAMBDA e : e.ev = "call")
Resolved(t) == lpc[t] \in {"found", "called"}
\* The filesystem thread t's access returned is the one at the lowest registry
\* position that exposes the name.
LowestExposing(t) ==
    \E k \in 1..Len(filesystems) :
        /\ filesystems[k] = lfound[t]
        /\ attrs[filesystems[k]][lname[t]] = "yes"
        /\ \A j \in 1..(k - 1) : attrs[filesystems[j]][lname[t]] = "no"
\* The access scanned the registry from its first position, in order, up to the
\* filesystem it returned.
ScannedFromStart(t) ==
    LET ins == Inspections(t)
    IN  /\ ins # <<>>
        /\ \A k \in 1..Len(ins) :
               /\ ins[k].pos = k
               /\ ins[k].fs = filesystems[k]
               /\ ins[k].ans = (k = Len(ins))
        /\ ins[Len(ins)].fs = lfound[t]

C7_ForwardsToLowest ==
    /\ hist = <<>> /\ first_exception = None /\ pc = "idle"
    /\ \A t \in Threads :
        /\ \A k \in 1..Len(lhist[t]) : lhist[t][k].ev \in {"hasattr", "call"}
        /\ Resolved(t) => LowestExposing(t)
        /\ lpc[t] = "called"
           => /\ Len(Forwarded(t)) = 1
              /\ Forwarded(t)[1] = lhist[t][Len(lhist[t])]
              /\ Forwarded(t)[1].fs = lfound[t]
              /\ lout[t] = Forwarded(t)[1].res
              /\ lout[t].by = lfound[t]

\* C7's case: the name was found at the second position, the forwarded call
\* failed with an IOError, and a filesystem after it was left alone.
C7_Witness ==
    \E t \in Threads :
        /\ lpc[t] = "called"
        /\ Len(Inspections(t)) = 2
        /\ Len(filesystems) = 3
        /\ lout[t].type = "raise"
        /\ lout[t].exc.kind = "IOError"
        /\ attrs[filesystems[3]][lname[t]] = "unasked"

\* The opening attempt of the generator's _do_action: the last attempt made.
Opener == Tries[Len(Tries)]
\* The generator has a stream: one filesystem's _cat_file returned it.
Opened == caller = "gen" /\ gstate \in {"streaming", "finished"} /\ gsrc # Dispatcher

\* C8: the generator yields the lines of the stream returned by the first
\* claiming filesystem whose _cat_file did not fail (those before it failed
\* with IOErrors), in the stream's order; when it is exhausted it has yielded
\* exactly those lines, and a further next() leaves the lines yielded and the
\* attempts made as they were.
C8_ReadLinesOfOpener ==
    Opened
    => /\ Opener.res.type = "return"
       /\ Opener.fs = gsrc
       /\ Opener.res.value = gopened
       /\ \A j \in 1..(Len(Tries) - 1) : IOFailed(Tries[j])
       /\ yielded \o gstream.lines = gopened.lines
       /\ (gstate = "finished" /\ gout = StopIteration) => yielded = gopened.lines
       /\ gagain => /\ gstate = "finished"
                    /\ pc = "idle"
                    /\ hist[Len(hist)] = Opener

\* C8's case: the first candidate failed to open with an IOError, the second
\* returned a stream of two lines, the generator yielded them and ended, and
\* next() was called on it again.
C8_Witness ==
    /\ Opened
    /\ Len(Tries) = 2
    /\ IOFailed(Tries[1])
    /\ gopened = [lines |-> <<"a", "b">>, end |-> "eof"]
    /\ yielded = <<"a", "b">>
    /\ gout = StopIteration
    /\ gagain

\* C9: while and after the generator iterates a stream, the opening attempt stays
\* the last call made on any filesystem; a failure of the stream, IOError or
\* not, is what the generator raises, and the lines yielded are the stream's,
\* each once.
C9_MidStreamPropagates ==
    Opened
    => /\ hist[Len(hist)].ev = "try"
       /\ hist[Len(hist)].fs = gsrc
       /\ i = hist[Len(hist)].pos
       /\ (gstate = "finished" /\ gopened.end # "eof")
          => /\ gout = BackendFailure(gopened.end, gsrc, "read")
             /\ gout # first_exception
             /\ yielded = gopened.lines

\* C9's case: an IOError was saved while opening, the next candidate's stream
\* gave two lines and then failed with an IOError, and the filesystem after it
\* was never asked.
C9_Witness ==
    /\ Opened
    /\ gstate = "finished"
    /\ gopened = [lines |-> <<"a", "b">>, end |-> "IOError"]
    /\ first_exception # None
    /\ gout.kind = "IOError"
    /\ i < Len(filesystems)

\* C10: accesses to the same name that are resolved, however they interleaved,
\* returned the attribute of the same filesystem, the one at the lowest
\* position exposing the name; and a binding of the name, if there is one, is
\* to that filesystem.
C10_LookupsConverge ==
    \A t1, t2 \in Threads :
        (Resolved(t1) /\ Resolved(t2) /\ lname[t1] = lname[t2])
        => /\ lfound[t1] = lfound[t2]
           /\ LowestExposing(t1)
           /\ bound[lname[t1]] \in {Dispatcher, lfound[t1]}

\* C10's case: two threads accessed the same name, neither after the other had
\* resolved it, and both went past the first position.
C10_Witness ==
    /\ Resolved("t1") /\ Resolved("t2")
    /\ lname["t1"] = lname["t2"]
    /\ ~lwarm["t1"] /\ ~lwarm["t2"]
    /\ Len(Inspections("t1")) >= 2
    /\ Len(Inspections("t2")) >= 2

\* C11, as claimed (with the first mkdir taken to have succeeded): with
\* filesystems that keep their contract, a mkdir that follows a mkdir of the same
\* path does not fail, and an rm that follows an rm of a path that was on no
\* filesystem does not fail.
C11_Original ==
    /\ (PassThroughEnded /\ action = "mkdir" /\ before.act = "mkdir" /\ before.ok)
       => outcome.type = "return"
    /\ (PassThroughEnded /\ action = "rm" /\ before.act = "rm" /\ before.clean
        /\ filesystems # <<>>)
       => outcome.type = "return"

\* C11, amended: with filesystems that keep their contract and answer
\* can_handle_path the same way in both calls, a mkdir that follows a mkdir of
\* the same path which returned from the first filesystem claiming the path does
\* not fail; and an rm of a path that is on no filesystem and that some
\* filesystem claims does not fail, the first time or the second.
C11_IdempotentOnFirstClaimant ==
    /\ (PassThroughEnded /\ action = "mkdir" /\ before.act = "mkdir" /\ before.first)
       => /\ outcome.type = "return"
          /\ Len(Tries) = 1
          /\ Claimers # <<>>
          /\ outcome.by = Claimers[1].fs
    /\ (PassThroughEnded /\ action = "rm" /\ clean /\ Claimers # <<>>)
       => outcome.type = "return"
    /\ (PassThroughEnded /\ action = "rm" /\ before.act = "rm" /\ before.clean
        /\ Claimers # <<>>)
       => /\ outcome.type = "return"
          /\ clean

\* C11's case: the second of two mkdir calls has returned, in a registry whose
\* first filesystem declines the path and whose second claims it.
C11_Witness ==
    /\ PassThroughEnded
    /\ action = "mkdir"
    /\ before.act = "mkdir"
    /\ before.first
    /\ Len(hist) = 3
    /\ outcome.type = "return"

\* C11's other case: the second of two rm calls of a path that was on no
\* filesystem has returned.
C11_WitnessRm ==
    /\ PassThroughEnded
    /\ action = "rm"
    /\ before.act = "rm"
    /\ before.clean
    /\ outcome.type = "return"

\* C12: an access to a name that no filesystem of the registry exposes raises
\* an AttributeError made by the dispatcher, which is not an IOError and is not
\* caught by the fallback, and whose message is the name; before it every
\* filesystem was inspected with hasattr exactly once, in registry order, each
\* answering no; and no filesystem's method was called.
C12_MissingNameRaises ==
    \A t \in Threads :
        lpc[t] = "missing"
        => /\ lout[t].type = "raise"
           /\ lout[t].exc.kind = "AttributeError"
           /\ lout[t].exc.kind # "IOError"
           /\ ~Catches(lout[t].exc)
           /\ lout[t].exc.by = Dispatcher
           /\ Names_In(lout[t].exc.msg, lname[t])
           /\ Len(Inspections(t)) = Len(filesystems)
           /\ \A k \in 1..Len(filesystems) :
                  /\ Inspections(t)[k].pos = k
                  /\ Inspections(t)[k].fs = filesystems[k]
                  /\ ~Inspections(t)[k].ans
                  /\ attrs[filesystems[k]][lname[t]] = "no"
           /\ Forwarded(t) = <<>>
           /\ lhist[t] = Inspections(t)
           /\ hist = <<>>

\* C12's case: a registry of three filesystems, none exposing the name, and the
\* access has raised.
C12_Witness ==
    \E t \in Threads :
        /\ lpc[t] = "missing"
        /\ Len(filesystems) = 3
        /\ Len(lhist[t]) = 3
        /\ lout[t].type = "raise"

\* C13: in a pass-through call, a successful attempt is the last thing the call
\* did: after it no filesystem was asked whether it handles the path and none
\* was attempted, the loop's position is the position of that attempt, and the
\* call has ended with that result. So at most one attempt succeeds per call,
\* and it is the last attempt.
C13_ShortCircuitOnSuccess ==
    (caller = "direct" /\ action \in PassThrough)
    => /\ \A k \in 1..Len(hist) :
              (hist[k].ev = "try" /\ hist[k].res.type = "return")
              => /\ k = Len(hist)
                 /\ pc \in {"done", "idle"}
                 /\ i = hist[k].pos
                 /\ \A j \in 1..Len(hist) : hist[j].pos <= hist[k].pos
                 /\ outcome = hist[k].res
       /\ \A j, k \in 1..Len(Tries) :
              (Tries[j].res.type = "return" /\ Tries[k].res.type = "return") => j = k

\* C13's case: the first of three filesystems claimed the path and succeeded,
\* and the two after it were left alone; the call has ended.
C13_Witness ==
    /\ PassThroughEnded
    /\ Len(filesystems) = 3
    /\ Len(hist) = 2
    /\ hist[2].ev = "try"
    /\ hist[2].pos = 1
    /\ hist[2].res.type = "return"
    /\ pc = "idle"

\* The filesystems that answered no to can_handle_path in this call.
Decliners == SelectSeq(hist, LAMBDA e : e.ev = "check" /\ ~e.ans)

\* C14: in a pass-through call, every attempt follows at once the same
\* filesystem's yes to can_handle_path for the call's path; a filesystem that
\* answered no is never attempted; and what the call returns or raises comes
\* from a filesystem that answered yes, or is the dispatcher's own failure,
\* never from a filesystem that answered no.
C14_OnlyClaimantsAttempted ==
    (caller = "direct" /\ action \in PassThrough)
    => /\ \A k \in 1..Len(hist) :
              hist[k].ev = "try"
              => /\ k > 1
                 /\ hist[k - 1].ev = "check"
                 /\ hist[k - 1].ans
                 /\ hist[k - 1].pos = hist[k].pos
                 /\ hist[k - 1].fs = hist[k].fs
       /\ \A d \in 1..Len(Decliners) :
              /\ \A k \in 1..Len(Tries) : Tries[k].fs # Decliners[d].fs
              /\ outcome # NoOutcome
                 => IF outcome.type = "return"
                    THEN outcome.by # Decliners[d].fs
                    ELSE outcome.exc.by # Decliners[d].fs
       /\ outcome # NoOutcome
          => \/ outcome.type = "raise" /\ outcome.exc.by = Dispatcher
             \/ \E c \in 1..Len(Claimers) :
                    Claimers[c].fs = (IF outcome.type = "return" THEN outcome.by
                                      ELSE outcome.exc.by)

\* C14's case: the first filesystem answered no, the second answered yes and
\* was attempted, and the call has ended with what the second did.
C14_Witness ==
    /\ PassThroughEnded
    /\ Len(hist) = 3
    /\ hist[1].ev = "check" /\ ~hist[1].ans
    /\ hist[2].ev = "check" /\ hist[2].ans
    /\ hist[3].ev = "try"
    /\ outcome.type = "return"
    /\ outcome.by = filesystems[2]

\* The can_handle_path questions of this call, in the order they were asked.
Checks == SelectSeq(hist, LAMBDA e : e.ev = "check")

\* C15: within one pass-through call, the k-th question is to the filesystem at
\* registry position k, and attempts are at strictly increasing positions, each
\* on the filesystem at its position: so each filesystem is asked at most once
\* and attempted at most once. A filesystem is asked only after every
\* filesystem before it that claimed the path has been attempted and has
\* failed with an IOError.
C15_TrialOrder ==
    (caller = "direct" /\ action \in PassThrough)
    => /\ Len(Checks) <= Len(filesystems)
       /\ \A k \in 1..Len(Checks) :
              /\ Checks[k].pos = k
              /\ Checks[k].fs = filesystems[k]
       /\ \A j, k \in 1..Len(Tries) :
              /\ Tries[k].fs = filesystems[Tries[k].pos]
              /\ j < k => Tries[j].pos < Tries[k].pos
       /\ \A j, k \in 1..Len(hist) :
              j < k => /\ hist[j].pos <= hist[k].pos
                       /\ hist[j].ev = hist[k].ev => hist[j].fs # hist[k].fs
       /\ \A k \in 1..Len(hist) :
              hist[k].ev = "check"
              => \A m \in 1..(k - 1) :
                     (hist[m].ev = "check" /\ hist[m].ans)
                     => /\ m + 1 < k
                        /\ hist[m + 1].ev = "try"
                        /\ hist[m + 1].fs = hist[m].fs
                        /\ IOFailed(hist[m + 1])

\* C15's case: three filesystems, the first claimed the path and failed with an
\* IOError, the second declined, and the third has been asked.
C15_Witness ==
    /\ caller = "direct" /\ action \in PassThrough
    /\ Len(filesystems) = 3
    /\ Len(hist) = 4
    /\ hist[1].ev = "check" /\ hist[1].ans
    /\ hist[2].ev = "try" /\ IOFailed(hist[2])
    /\ hist[3].ev = "check" /\ ~hist[3].ans
    /\ hist[4].ev = "check" /\ hist[4].pos = 3

\* The attempts of this call that failed with an IOError.
IOFailures == SelectSeq(Tries, IOFailed)

\* C16: in _cat_file's _do_action, an IOError raised by a claiming filesystem's
\* _cat_file call is handled as in every other call: the failure saved is the
\* first such failure of the call and no later one replaces it; the loop goes
\* on to the filesystem at the next position; and when every claiming
\* filesystem's call failed so, the generator raises the first one's exception
\* and yields nothing.
C16_OpenFailureFollowsDispatch ==
    (caller = "gen" /\ gstate # "fresh")
    => /\ first_exception = (IF IOFailures = <<>> THEN None ELSE IOFailures[1].res.exc)
       /\ \A k \in 1..Len(hist) :
              (hist[k].ev = "try" /\ IOFailed(hist[k]))
              => /\ IF k = Len(hist)
                    THEN pc \in {"check", "done", "idle"} /\ (pc = "check" => i = hist[k].pos + 1)
                    ELSE /\ hist[k + 1].ev = "check"
                         /\ hist[k + 1].pos = hist[k].pos + 1
                         /\ hist[k + 1].fs = filesystems[hist[k].pos + 1]
       /\ (/\ outcome # NoOutcome
           /\ Claimers # <<>>
           /\ \A k \in 1..Len(Tries) : IOFailed(Tries[k]))
          => /\ Len(Tries) = Len(Claimers)
             /\ Len(Checks) = Len(filesystems)
             /\ outcome = Raise(Tries[1].res.exc)
             /\ gout = Tries[1].res.exc
             /\ gout.by = Claimers[1].fs
             /\ gstate = "finished"
             /\ yielded = <<>>

\* C16's case: two filesystems claimed the path, _cat_file failed with an
\* IOError in both, with different messages, and the generator has raised.
C16_Witness ==
    /\ caller = "gen"
    /\ gstate = "finished"
    /\ pc = "idle"
    /\ Len(Claimers) = 2
    /\ Len(Tries) = 2
    /\ IOFailed(Tries[1]) /\ IOFailed(Tries[2])
    /\ Tries[1].res.exc.msg # Tries[2].res.exc.msg
    /\ gout = Tries[1].res.exc

\* C16's other case: an IOError in the first claimant's _cat_file was saved and
\* the next claimant's stream is what the generator reads.
C16_WitnessFallback ==
    /\ caller = "gen"
    /\ gstate = "streaming"
    /\ Len(Tries) = 2
    /\ IOFailed(Tries[1])
    /\ first_exception = Tries[1].res.exc
    /\ gsrc = Tries[2].fs

\* What a call must end with, from what the filesystems answered in this call
\* alone: the last attempt's result or non-IOError exception, else the first
\* IOError of this call, else the dispatcher's own failure.
OutcomeOfAnswers ==
    IF Tries # <<>> /\ ~IOFailed(Tries[Len(Tries)])
    THEN IF Tries[Len(Tries)].res.type = "return"
         THEN Tries[Len(Tries)].res
         ELSE [type |-> "raise", exc |-> Tries[Len(Tries)].res.exc]
    ELSE IF IOFailures # <<>>
         THEN [type |-> "raise", exc |-> IOFailures[1].res.exc]
         ELSE [type |-> "raise",
               exc |-> [kind |-> "IOError", by |-> Dispatcher,
                        msg |-> CouldNot(action, path, args)]]

\* C17: in every pass-through call the failure saved is None until an attempt
\* of this call fails with an IOError, and is then this call's first such
\* failure; so a call never raises a failure saved by a call before it, and its
\* outcome is determined by its operation, its path and the answers of the
\* filesystems in this call, whatever calls ran before.
C17_CallsStateless ==
    (caller = "direct" /\ action \in PassThrough)
    => /\ first_exception = (IF IOFailures = <<>> THEN None ELSE IOFailures[1].res.exc)
       /\ outcome # NoOutcome
          => /\ outcome = OutcomeOfAnswers
             /\ (outcome.type = "raise" /\ outcome.exc.by # Dispatcher)
                => \E k \in 1..Len(Tries) :
                       Tries[k].res.type = "raise" /\ Tries[k].res.exc = outcome.exc

\* C17's case: a call before this one saved a failure, and this call, in which
\* no filesystem claimed the path, has ended with the dispatcher's own failure.
C17_Witness ==
    /\ earlier
    /\ PassThroughEnded
    /\ filesystems # <<>>
    /\ Claimers = <<>>
    /\ first_exception = None
    /\ outcome.type = "raise"
    /\ outcome.exc.by = Dispatcher

\* C18: no step of the dispatcher (the start of a call, a can_handle_path
\* question, an attempt that returns or fails, the end of a call, any step of
\* the _cat_file generator) changes self.filesystems: after any sequence of
\* operations it is the sequence of filesystems given to the constructor, in
\* the same order.
C18_RegistryFixed == [][filesystems' = filesystems]_vars

\* C18's case: a registry of three filesystems after a call in which an attempt
\* failed with an IOError, itself after an earlier call that had saved a
\* failure.
C18_Witness ==
    /\ Len(filesystems) = 3
    /\ earlier
    /\ PassThroughEnded
    /\ pc = "idle"
    /\ IOFailures # <<>>
    /\ first_exception # None

\* C19: calling _cat_file runs nothing: until the first element of the
\* generator is demanded, no filesystem has been asked or attempted, no
\* failure has been raised, the dispatcher's own failure for a path without
\* owner included, and nothing has been yielded. Every question, attempt and
\* failure of a _cat_file call is after that first demand.
C19_CatFileLazy ==
    caller = "gen"
    => /\ gstate = "fresh"
          => /\ ~demanded
             /\ hist = <<>>
             /\ outcome = NoOutcome
             /\ gout = None
             /\ yielded = <<>>
             /\ first_exception = None
             /\ pc = "idle"
       /\ (\/ hist # <<>>
           \/ outcome # NoOutcome
           \/ gout # None
           \/ first_exception # None
           \/ yielded # <<>>
           \/ pc # "idle") => demanded
       /\ ~demanded => gstate = "fresh"

\* C19's case: a generator for a path no filesystem of a registry of two claims
\* has raised the dispatcher's own failure, after its first element was
\* demanded.
C19_Witness ==
    /\ caller = "gen"
    /\ demanded
    /\ gstate = "finished"
    /\ Len(filesystems) = 2
    /\ Claimers = <<>>
    /\ gout # None
    /\ gout.by = Dispatcher
    /\ gout.kind = "IOError"

\* C19's other case: the generator has been made and nothing has been demanded.
C19_WitnessFresh ==
    /\ caller = "gen"
    /\ gstate = "fresh"
    /\ ~demanded
    /\ earlier

\* _do_action's loop is running.
InLoop == caller = "direct" /\ pc \in {"check", "try"}

\* C20: every pass-through call over a registry of N filesystems that answer
\* (each can_handle_path and each method returns or raises) ends: from every
\* state in which the loop runs, the call reaches its end with one outcome, a
\* returned value or a raised exception; and at no time has the call asked more
\* than N questions or made more than N attempts, nor has it an outcome before
\* its end.
C20_CallTerminates ==
    /\ [](caller = "direct"
          => /\ Len(Checks) <= Len(filesystems)
             /\ Len(Tries) <= Len(Checks)
             /\ Len(Tries) <= Len(filesystems)
             /\ InLoop => outcome = NoOutcome)
    /\ InLoop ~> (/\ pc = "done"
                  /\ outcome # NoOutcome
                  /\ outcome.type \in {"return", "raise"}
                  /\ Len(Checks) <= Len(filesystems)
                  /\ Len(Tries) <= Len(filesystems))

\* C20's case: a call over three filesystems that has ended after three
\* questions and three attempts, each attempt failing with an IOError.
C20_Witness ==
    /\ PassThroughEnded
    /\ Len(filesystems) = 3
    /\ Len(Checks) = 3
    /\ Len(Tries) = 3
    /\ Len(IOFailures) = 3
    /\ outcome.type = "raise"

====
